---- MODULE Spec2Model ----
(***************************************************************************)
(* example/fastapi_tuya_api.py: a FastAPI facade over one shared           *)
(* TuyaOpenAPI adapter.  Requests are handled concurrently (FastAPI runs   *)
(* `def` endpoints in a thread pool); one adapter call is one atomic step. *)
(***************************************************************************)
EXTENDS Naturals, Sequences, FiniteSets, TLC

\* ---------------------------------------------------------------- bounds
MaxLen == 3
MaxDevs == 3
MaxCmds == 2
NumReq == 2

\* ------------------------------------------------------------- strings
\* A Python str is a sequence of one-character strings.
Alphabet == {"A", "B", ",", " "}
Whitespace == {" "}
Comma == ","

RECURSIVE StringsUpTo(_)
StringsUpTo(n) ==
    IF n = 0 THEN {<<>>}
    ELSE LET shorter == StringsUpTo(n - 1)
         IN shorter \cup {Append(s, c) : s \in {t \in shorter : Len(t) = n - 1}, c \in Alphabet}

\* Optional[str]: None or a str.
None == [given |-> FALSE, s |-> <<>>]
Some(s) == [given |-> TRUE, s |-> s]

\* if ids: -- None and "" are falsy, every other str is truthy.
Truthy(ids) == ids.given /\ Len(ids.s) > 0

\* str.split(sep): the segments between occurrences of sep, empty ones kept.
RECURSIVE split(_, _)
split(s, sep) ==
    IF \A i \in 1..Len(s) : s[i] # sep THEN <<s>>
    ELSE LET k == CHOOSE i \in 1..Len(s) : s[i] = sep /\ \A j \in 1..(i - 1) : s[j] # sep
         IN <<SubSeq(s, 1, k - 1)>> \o split(SubSeq(s, k + 1, Len(s)), sep)

\* str.strip(): leading and trailing whitespace removed.
RECURSIVE lstrip(_)
lstrip(s) == IF s # <<>> /\ Head(s) \in Whitespace THEN lstrip(Tail(s)) ELSE s

RECURSIVE rstrip(_)
rstrip(s) ==
    IF s # <<>> /\ s[Len(s)] \in Whitespace THEN rstrip(SubSeq(s, 1, Len(s) - 1)) ELSE s

strip_keep(s) == s

strip(s) == rstrip(lstrip(s))

RECURSIVE comprehension(_)
comprehension(segs) ==
    IF segs = <<>> THEN <<>>
    ELSE IF strip(Head(segs)) # <<>>
         THEN <<strip(Head(segs))>> \o comprehension(Tail(segs))
         ELSE comprehension(Tail(segs))

\* [i.strip() for i in ids.split(",") if i.strip()]
parse_ids(s) == comprehension(split(s, Comma))

\* ------------------------------------------------------ path segments
v1_0 == <<"v", "1", ".", "0">>
devices == <<"d", "e", "v", "i", "c", "e", "s">>
iot_03 == <<"i", "o", "t", "-", "0", "3">>
commands == <<"c", "o", "m", "m", "a", "n", "d", "s">>
logs == <<"l", "o", "g", "s">>
health_seg == <<"h", "e", "a", "l", "t", "h">>

\* The f-strings of the adapter paths; a path is its "/"-separated segments.
DevicePath(did) == <<v1_0, devices, did>>
ListingPath == <<v1_0, iot_03, devices>>
CommandsPath(did) == <<v1_0, devices, did, commands>>
LogsPath(did) == <<v1_0, devices, did, logs>>

\* ------------------------------------------------------------ commands
\* A CommandItem instance is the pair of its fields (code, value).
CommandItems == {<<"switch", "true">>, <<"mode", "1">>}

RECURSIVE SeqsUpTo(_, _)
SeqsUpTo(S, n) ==
    IF n = 0 THEN {<<>>}
    ELSE LET shorter == SeqsUpTo(S, n - 1)
         IN shorter \cup {Append(s, x) : s \in {t \in shorter : Len(t) = n - 1}, x \in S}

DeviceIds == {<<"A">>, <<"B">>}

\* CommandsRequest(device_ids, commands)
CommandsRequest(ids, cmds) == [device_ids |-> ids, commands |-> cmds]
NoPayload == CommandsRequest(<<>>, <<>>)

\* CommandItem.dict()
dict_swapped(c) == [code |-> c[2], value |-> c[1]]

dict(c) == [code |-> c[1], value |-> c[2]]

\* {"commands": [c.dict() for c in payload.commands]}
build_commands_payload(payload) ==
    [commands |-> [j \in 1..Len(payload.commands) |-> dict(payload.commands[j])]]

\* ------------------------------------------------------------- adapter
\* TuyaOpenAPI is the cloud client adapter: connect(), get(path), post(path, body).
OPENAPI == "TuyaOpenAPI"
NoAdapter == "unset"

NoneResp == "None"
Bodies == {"r1", "r2"}

Exc(type, msg) == [type |-> type, status_code |-> 0, detail |-> msg]
AuthenticationError == Exc("AuthenticationError", "sign invalid")
ConnectivityError == Exc("ConnectivityError", "timed out")
RemoteError == Exc("RemoteError", "upstream 1106")
OtherError == Exc("RuntimeError", "unexpected")

Returned(v) == [raised |-> FALSE, value |-> v, exc |-> Exc("", "")]
Raised(e) == [raised |-> TRUE, value |-> NoneResp, exc |-> e]

\* connect() at startup: success or a failure.
ConnectOutcomes ==
    {Returned(NoneResp), Raised(AuthenticationError), Raised(ConnectivityError), Raised(OtherError)}

\* One get/post: a single attempt.  Without a session the adapter first tries
\* to connect, which can fail again.
AdapterOutcomes(sess) ==
    {Returned(b) : b \in Bodies \cup {NoneResp}}
        \cup {Raised(RemoteError), Raised(ConnectivityError)}
        \cup (IF sess = "connected" THEN {} ELSE {Raised(AuthenticationError)})

SessionAfter(sess, out) ==
    IF sess = "connected" THEN "connected"
    ELSE IF out.raised /\ out.exc.type \in {"AuthenticationError", "ConnectivityError"}
         THEN sess
         ELSE "connected"

NoBody == <<>>
AdapterCall(adapter, method, path, body, out) ==
    [adapter |-> adapter, method |-> method, path |-> path, body |-> body, out |-> out]

\* ----------------------------------------------------------- responses
HTTPException(code, detail) == [type |-> "HTTPException", status_code |-> code, detail |-> detail]
str(exc) == exc.detail

NoMapping == <<>>
Response(status, kind, mapping, raw, detail) ==
    [status |-> status, kind |-> kind, mapping |-> mapping, raw |-> raw, detail |-> detail]
NoResponse == Response(0, "none", NoMapping, NoneResp, "")
ReturnMapping(m) == Response(200, "mapping", m, NoneResp, "")
ReturnRaw(v) == Response(200, "raw", NoMapping, v, "")
\* An HTTPException that leaves the endpoint is rendered by FastAPI.
ErrorResponse(exc) == Response(exc.status_code, "error", NoMapping, NoneResp, exc.detail)

\* results[did] = resp
Put(m, did, resp) == [k \in (DOMAIN m) \cup {did} |-> IF k = did THEN resp ELSE m[k]]

\* ------------------------------------------------------------- routing
\* The route table in declaration order (the @app.get / @app.post decorators).
Lit(s) == [param |-> FALSE, text |-> s]
Param(name) == [param |-> TRUE, text |-> name]
device_id_name == <<"d", "e", "v", "i", "c", "e", "_", "i", "d">>

APIRoute(method, path, ep) == [method |-> method, path |-> path, endpoint |-> ep]

routes ==
    << APIRoute("GET", <<Lit(health_seg)>>, "health"),
       APIRoute("GET", <<Lit(devices)>>, "list_devices"),
       APIRoute("GET", <<Lit(devices), Param(device_id_name)>>, "get_device"),
       APIRoute("POST", <<Lit(devices), Lit(commands)>>, "send_commands"),
       APIRoute("GET", <<Lit(devices), Lit(logs)>>, "get_logs") >>

\* A path parameter matches one non-empty segment; a literal matches itself.
PathMatches(route, path) ==
    /\ Len(route.path) = Len(path)
    /\ \A i \in 1..Len(path) :
          IF route.path[i].param THEN path[i] # <<>> ELSE route.path[i].text = path[i]

FullMatch(k, method, path) == PathMatches(routes[k], path) /\ routes[k].method = method
PartialMatch(k, method, path) == PathMatches(routes[k], path) /\ routes[k].method # method

\* The router serves the first route, in declaration order, that matches in
\* full; a path that matches only under another method is a 405, none a 404.
dispatch(method, path) ==
    IF \E k \in 1..Len(routes) : FullMatch(k, method, path)
    THEN LET k == CHOOSE i \in 1..Len(routes) :
                     /\ FullMatch(i, method, path)
                     /\ \A j \in 1..(i - 1) : ~FullMatch(j, method, path)
         IN routes[k].endpoint
    ELSE IF \E k \in 1..Len(routes) : PartialMatch(k, method, path)
         THEN "method_not_allowed"
         ELSE "not_found"

\* --------------------------------------------------------------- state
VARIABLES
    app,              \* "importing" | "serving" | "crashed": the module import
    tuya,             \* the module global `tuya`
    session,          \* the adapter's session: "connected" | "disconnected"
    connect_result,   \* what connect() did at startup
    pc,               \* per request: "idle" | "entry" | "loop" | "fallback" | "done"
    request,          \* per request: how it arrived
    endpoint,         \* per request: the endpoint function that serves it
    args,             \* per request: the endpoint's arguments
    device_ids,       \* per request: the local `device_ids`
    idx,              \* per request: position of the for loop
    results,          \* per request: the local `results`
    commands_payload, \* per request: the local `commands_payload`
    calls,            \* per request: the adapter calls it has issued, with outcomes
    response          \* per request: what the caller receives

vars == <<app, tuya, session, connect_result, pc, request, endpoint, args,
          device_ids, idx, results, commands_payload, calls, response>>

Requests == 1..NumReq

Args(ids, did, payload) == [ids |-> ids, device_id |-> did, payload |-> payload]
NoArgs == Args(None, <<>>, NoPayload)
Request(via_, method, path, query, body) ==
    [via |-> via_, method |-> method, path |-> path, query |-> query, body |-> body]
NoRequest == Request("none", "", <<>>, None, NoPayload)
NoCommandsPayload == [commands |-> <<>>]

Init ==
    /\ app = "importing"
    /\ tuya = NoAdapter
    /\ session = "disconnected"
    /\ connect_result = Returned(NoneResp)
    /\ pc = [r \in Requests |-> "idle"]
    /\ request = [r \in Requests |-> NoRequest]
    /\ endpoint = [r \in Requests |-> "none"]
    /\ args = [r \in Requests |-> NoArgs]
    /\ device_ids = [r \in Requests |-> <<>>]
    /\ idx = [r \in Requests |-> 0]
    /\ results = [r \in Requests |-> NoMapping]
    /\ commands_payload = [r \in Requests |-> NoCommandsPayload]
    /\ calls = [r \in Requests |-> <<>>]
    /\ response = [r \in Requests |-> NoResponse]

\* ------------------------------------------------------------- startup
init_openapi_propagating(out) ==
    IF out.raised THEN [raised |-> TRUE, adapter |-> NoAdapter]
    ELSE [raised |-> FALSE, adapter |-> OPENAPI]

\* try: openapi.connect()  except Exception: pass;  return openapi
_init_openapi(out) == [raised |-> FALSE, adapter |-> OPENAPI]

\* Importing the module: tuya = _init_openapi()
Startup ==
    /\ app = "importing"
    /\ \E out \in ConnectOutcomes :
          LET got == _init_openapi(out)
          IN /\ connect_result' = out
             /\ session' = IF out.raised THEN "disconnected" ELSE "connected"
             /\ app' = IF got.raised THEN "crashed" ELSE "serving"
             /\ tuya' = got.adapter
    /\ UNCHANGED <<pc, request, endpoint, args, device_ids, idx, results,
                   commands_payload, calls, response>>

\* ------------------------------------------------------------ arrivals
Inputs(eps, ids, dids, payloads) ==
    [endpoints |-> eps, ids |-> ids, device_id |-> dids, payloads |-> payloads]

Endpoints == {"health", "list_devices", "get_device", "send_commands", "get_logs"}

ArgsFor(ep, ids, did, payload) ==
    Args(IF ep \in {"list_devices", "get_logs"} THEN ids ELSE None,
         IF ep = "get_device" THEN did ELSE <<>>,
         IF ep = "send_commands" THEN payload ELSE NoPayload)

Start(r, req, ep, a) ==
    /\ request' = [request EXCEPT ![r] = req]
    /\ endpoint' = [endpoint EXCEPT ![r] = ep]
    /\ args' = [args EXCEPT ![r] = a]
    /\ pc' = [pc EXCEPT ![r] = "entry"]
    /\ UNCHANGED <<app, tuya, session, connect_result, device_ids, idx, results,
                   commands_payload, calls, response>>

ArgChoices(ep, in) ==
    IF ep \in {"list_devices", "get_logs"} THEN {Args(ids, <<>>, NoPayload) : ids \in in.ids}
    ELSE IF ep = "get_device" THEN {Args(None, did, NoPayload) : did \in in.device_id}
    ELSE IF ep = "send_commands" THEN {Args(None, <<>>, payload) : payload \in in.payloads}
    ELSE {NoArgs}

\* An endpoint function is called with its arguments.
Call(r, in) ==
    /\ app = "serving"
    /\ pc[r] = "idle"
    /\ \E ep \in in.endpoints :
          \E a \in ArgChoices(ep, in) :
             Start(r, Request("call", "", <<>>, None, NoPayload), ep, a)

HttpMethods == {"GET", "POST"}
HttpPaths ==
    {<<health_seg>>, <<devices>>, <<devices, logs>>, <<devices, commands>>,
     <<devices, <<"A">>>>, <<logs>>}
HttpQueries == {None, Some(<<"A", ",", "B">>)}
HttpBodies == {CommandsRequest(<<<<"A">>, <<"B">>>>, <<<<"switch", "true">>>>)}

\* An HTTP request arrives and the router picks its endpoint: a GET carries
\* the query parameter `ids` (or none), a POST a CommandsRequest body.
Receive(r) ==
    /\ app = "serving"
    /\ pc[r] = "idle"
    /\ \E method \in HttpMethods, path \in HttpPaths, query \in HttpQueries, body \in HttpBodies :
          LET ep == dispatch(method, path)
              q == IF method = "GET" THEN query ELSE None
              b == IF method = "POST" THEN body ELSE NoPayload
              req == Request("http", method, path, q, b)
          IN IF ep \in Endpoints
             THEN Start(r, req, ep, ArgsFor(ep, q, IF Len(path) >= 2 THEN path[2] ELSE <<>>, b))
             ELSE /\ request' = [request EXCEPT ![r] = req]
                  /\ endpoint' = [endpoint EXCEPT ![r] = ep]
                  /\ pc' = [pc EXCEPT ![r] = "done"]
                  /\ response' = [response EXCEPT ![r] =
                        IF ep = "method_not_allowed"
                        THEN ErrorResponse(HTTPException(405, "Method Not Allowed"))
                        ELSE ErrorResponse(HTTPException(404, "Not Found"))]
                  /\ UNCHANGED <<app, tuya, session, connect_result, args, device_ids,
                                 idx, results, commands_payload, calls>>

\* ------------------------------------------------------------ endpoints
\* The binding of the local name `results` of request r.
ResultsShared(r) == 1

ResultsOf(r) == r

Finish(r, resp) ==
    /\ pc' = [pc EXCEPT ![r] = "done"]
    /\ response' = [response EXCEPT ![r] = resp]

\* tuya.get(path) / tuya.post(path, body) by request r with outcome `out`.
Issue(r, method, path, body, out) ==
    /\ calls' = [calls EXCEPT ![r] = Append(@, AdapterCall(tuya, method, path, body, out))]
    /\ session' = SessionAfter(session, out)

At(r, ep, where) == app = "serving" /\ endpoint[r] = ep /\ pc[r] = where

\* def health(): return {"status": "ok"}
health(r) ==
    /\ At(r, "health", "entry")
    /\ Finish(r, Response(200, "health", NoMapping, "ok", ""))
    /\ UNCHANGED <<app, tuya, session, connect_result, request, endpoint, args,
                   device_ids, idx, results, commands_payload, calls>>

\* list_devices: except HTTPException: raise / except Exception: 500
list_devices_except_all(r, exc) == ErrorResponse(HTTPException(500, str(exc)))

list_devices_except(r, exc) ==
    IF exc.type = "HTTPException" THEN ErrorResponse(exc)
    ELSE ErrorResponse(HTTPException(500, str(exc)))

\* if ids: device_ids = [...]; results = {}
list_devices_entry(r) ==
    /\ At(r, "list_devices", "entry")
    /\ IF Truthy(args[r].ids)
       THEN /\ device_ids' = [device_ids EXCEPT ![r] = parse_ids(args[r].ids.s)]
            /\ results' = [results EXCEPT ![ResultsOf(r)] = NoMapping]
            /\ idx' = [idx EXCEPT ![r] = 1]
            /\ pc' = [pc EXCEPT ![r] = "loop"]
       ELSE /\ pc' = [pc EXCEPT ![r] = "fallback"]
            /\ UNCHANGED <<device_ids, results, idx>>
    /\ UNCHANGED <<app, tuya, session, connect_result, request, endpoint, args,
                   commands_payload, calls, response>>

\* for did in device_ids: resp = tuya.get(f"/v1.0/devices/{did}"); results[did] = resp
list_devices_iter(r) ==
    /\ At(r, "list_devices", "loop")
    /\ idx[r] <= Len(device_ids[r])
    /\ \E out \in AdapterOutcomes(session) :
          LET did == device_ids[r][idx[r]]
          IN /\ Issue(r, "GET", DevicePath(did), NoBody, out)
             /\ IF out.raised
                THEN /\ Finish(r, list_devices_except(r, out.exc))
                     /\ UNCHANGED <<results, idx>>
                ELSE /\ results' = [results EXCEPT ![ResultsOf(r)] = Put(@, did, out.value)]
                     /\ idx' = [idx EXCEPT ![r] = @ + 1]
                     /\ UNCHANGED <<pc, response>>
    /\ UNCHANGED <<app, tuya, connect_result, request, endpoint, args, device_ids,
                   commands_payload>>

\* return results
list_devices_return(r) ==
    /\ At(r, "list_devices", "loop")
    /\ idx[r] > Len(device_ids[r])
    /\ Finish(r, ReturnMapping(results[ResultsOf(r)]))
    /\ UNCHANGED <<app, tuya, session, connect_result, request, endpoint, args,
                   device_ids, idx, results, commands_payload, calls>>

\* resp = tuya.get("/v1.0/iot-03/devices"); if resp is None: raise 502; return resp
list_devices_fallback(r) ==
    /\ At(r, "list_devices", "fallback")
    /\ \E out \in AdapterOutcomes(session) :
          /\ Issue(r, "GET", ListingPath, NoBody, out)
          /\ Finish(r, IF out.raised THEN list_devices_except(r, out.exc)
                       ELSE IF out.value = NoneResp
                            THEN list_devices_except(r,
                                    HTTPException(502, "No response from Tuya API"))
                            ELSE ReturnRaw(out.value))
    /\ UNCHANGED <<app, tuya, connect_result, request, endpoint, args, device_ids,
                   idx, results, commands_payload>>

\* get_device: except HTTPException: raise / except Exception: 500
get_device_except_all(r, exc) == ErrorResponse(HTTPException(500, str(exc)))

get_device_except(r, exc) ==
    IF exc.type = "HTTPException" THEN ErrorResponse(exc)
    ELSE ErrorResponse(HTTPException(500, str(exc)))

\* resp = tuya.get(f"/v1.0/devices/{device_id}"); if resp is None: raise 502; return resp
get_device(r) ==
    /\ At(r, "get_device", "entry")
    /\ \E out \in AdapterOutcomes(session) :
          /\ Issue(r, "GET", DevicePath(args[r].device_id), NoBody, out)
          /\ Finish(r, IF out.raised THEN get_device_except(r, out.exc)
                       ELSE IF out.value = NoneResp
                            THEN get_device_except(r,
                                    HTTPException(502, "No response from Tuya API"))
                            ELSE ReturnRaw(out.value))
    /\ UNCHANGED <<app, tuya, connect_result, request, endpoint, args, device_ids,
                   idx, results, commands_payload>>

\* send_commands: except Exception: 500
send_commands_except_partial(r, exc) == ReturnMapping(results[ResultsOf(r)])

send_commands_except(r, exc) == ErrorResponse(HTTPException(500, str(exc)))

\* The device the i-th iteration of `for did in payload.device_ids` writes to.
send_commands_target_reversed(payload, i) ==
    payload.device_ids[Len(payload.device_ids) + 1 - i]

send_commands_target(payload, i) == payload.device_ids[i]

\* commands_payload = {"commands": [...]}; results = {}
send_commands_entry(r) ==
    /\ At(r, "send_commands", "entry")
    /\ commands_payload' = [commands_payload EXCEPT ![r] = build_commands_payload(args[r].payload)]
    /\ results' = [results EXCEPT ![ResultsOf(r)] = NoMapping]
    /\ idx' = [idx EXCEPT ![r] = 1]
    /\ pc' = [pc EXCEPT ![r] = "loop"]
    /\ UNCHANGED <<app, tuya, session, connect_result, request, endpoint, args,
                   device_ids, calls, response>>

\* for did in payload.device_ids:
\*     resp = tuya.post(f"/v1.0/devices/{did}/commands", commands_payload); results[did] = resp
send_commands_iter(r) ==
    /\ At(r, "send_commands", "loop")
    /\ idx[r] <= Len(args[r].payload.device_ids)
    /\ \E out \in AdapterOutcomes(session) :
          LET did == send_commands_target(args[r].payload, idx[r])
          IN /\ Issue(r, "POST", CommandsPath(did), <<commands_payload[r]>>, out)
             /\ IF out.raised
                THEN /\ Finish(r, send_commands_except(r, out.exc))
                     /\ UNCHANGED <<results, idx>>
                ELSE /\ results' = [results EXCEPT ![ResultsOf(r)] = Put(@, did, out.value)]
                     /\ idx' = [idx EXCEPT ![r] = @ + 1]
                     /\ UNCHANGED <<pc, response>>
    /\ UNCHANGED <<app, tuya, connect_result, request, endpoint, args, device_ids,
                   commands_payload>>

\* return results
send_commands_return(r) ==
    /\ At(r, "send_commands", "loop")
    /\ idx[r] > Len(args[r].payload.device_ids)
    /\ Finish(r, ReturnMapping(results[ResultsOf(r)]))
    /\ UNCHANGED <<app, tuya, session, connect_result, request, endpoint, args,
                   device_ids, idx, results, commands_payload, calls>>

\* get_logs: except HTTPException: raise / except Exception: 500
get_logs_except(r, exc) ==
    IF exc.type = "HTTPException" THEN ErrorResponse(exc)
    ELSE ErrorResponse(HTTPException(500, str(exc)))

\* if not ids: raise 400;  device_ids = [...]; results = {}
get_logs_entry(r) ==
    /\ At(r, "get_logs", "entry")
    /\ IF ~Truthy(args[r].ids)
       THEN /\ Finish(r, get_logs_except(r,
                    HTTPException(400, "Query parameter ids is required")))
            /\ UNCHANGED <<device_ids, results, idx>>
       ELSE /\ device_ids' = [device_ids EXCEPT ![r] = parse_ids(args[r].ids.s)]
            /\ results' = [results EXCEPT ![ResultsOf(r)] = NoMapping]
            /\ idx' = [idx EXCEPT ![r] = 1]
            /\ pc' = [pc EXCEPT ![r] = "loop"]
            /\ UNCHANGED response
    /\ UNCHANGED <<app, tuya, session, connect_result, request, endpoint, args,
                   commands_payload, calls>>

\* for did in device_ids: resp = tuya.get(f"/v1.0/devices/{did}/logs"); results[did] = resp
get_logs_iter(r) ==
    /\ At(r, "get_logs", "loop")
    /\ idx[r] <= Len(device_ids[r])
    /\ \E out \in AdapterOutcomes(session) :
          LET did == device_ids[r][idx[r]]
          IN /\ Issue(r, "GET", LogsPath(did), NoBody, out)
             /\ IF out.raised
                THEN /\ Finish(r, get_logs_except(r, out.exc))
                     /\ UNCHANGED <<results, idx>>
                ELSE /\ results' = [results EXCEPT ![ResultsOf(r)] = Put(@, did, out.value)]
                     /\ idx' = [idx EXCEPT ![r] = @ + 1]
                     /\ UNCHANGED <<pc, response>>
    /\ UNCHANGED <<app, tuya, connect_result, request, endpoint, args, device_ids,
                   commands_payload>>

\* return results
get_logs_return(r) ==
    /\ At(r, "get_logs", "loop")
    /\ idx[r] > Len(device_ids[r])
    /\ Finish(r, ReturnMapping(results[ResultsOf(r)]))
    /\ UNCHANGED <<app, tuya, session, connect_result, request, endpoint, args,
                   device_ids, idx, results, commands_payload, calls>>

\* The response is sent; the endpoint's frame and its locals are gone.
Respond(r) ==
    /\ pc[r] = "done"
    /\ pc' = [pc EXCEPT ![r] = "idle"]
    /\ request' = [request EXCEPT ![r] = NoRequest]
    /\ endpoint' = [endpoint EXCEPT ![r] = "none"]
    /\ args' = [args EXCEPT ![r] = NoArgs]
    /\ device_ids' = [device_ids EXCEPT ![r] = <<>>]
    /\ idx' = [idx EXCEPT ![r] = 0]
    /\ commands_payload' = [commands_payload EXCEPT ![r] = NoCommandsPayload]
    /\ results' = [results EXCEPT ![ResultsOf(r)] = NoMapping]
    /\ calls' = [calls EXCEPT ![r] = <<>>]
    /\ response' = [response EXCEPT ![r] = NoResponse]
    /\ UNCHANGED <<app, tuya, session, connect_result>>

\* ------------------------------------------------------- specifications
\* Spec: one request at a time, every input within the bounds.
FullInputs ==
    Inputs(Endpoints,
           {None} \cup {Some(s) : s \in StringsUpTo(MaxLen)},
           DeviceIds \cup {logs},
           {CommandsRequest(d, c) : d \in SeqsUpTo(DeviceIds, MaxDevs),
                                    c \in SeqsUpTo(CommandItems, MaxCmds)})

Next ==
    \/ Startup
    \/ \E r \in {1} :
          \/ Call(r, FullInputs)
          \/ Receive(r)
          \/ health(r)
          \/ list_devices_entry(r)
          \/ list_devices_iter(r)
          \/ list_devices_return(r)
          \/ list_devices_fallback(r)
          \/ get_device(r)
          \/ send_commands_entry(r)
          \/ send_commands_iter(r)
          \/ send_commands_return(r)
          \/ get_logs_entry(r)
          \/ get_logs_iter(r)
          \/ get_logs_return(r)
          \/ Respond(r)

Spec == Init /\ [][Next]_vars

\* SpecConc: NumReq requests handled concurrently, interleaved at every step.
ConcInputs ==
    Inputs({"list_devices", "send_commands", "get_logs"},
           {Some(<<"A">>)},
           {},
           {CommandsRequest(<<<<"B">>, <<"A">>>>, <<<<"switch", "true">>>>)})

NextConc ==
    \/ Startup
    \/ \E r \in Requests :
          \/ Call(r, ConcInputs)
          \/ list_devices_entry(r)
          \/ list_devices_iter(r)
          \/ list_devices_return(r)
          \/ send_commands_entry(r)
          \/ send_commands_iter(r)
          \/ send_commands_return(r)
          \/ get_logs_entry(r)
          \/ get_logs_iter(r)
          \/ get_logs_return(r)
          \/ Respond(r)

SpecConc == Init /\ [][NextConc]_vars

\* ---------------------------------------------------------------- claims
Done(r) == pc[r] = "done"
Raises(r) == {k \in 1..Len(calls[r]) : calls[r][k].out.raised}
NoRaise(r) == Raises(r) = {}
Outcomes(r) == [k \in 1..Len(calls[r]) |-> calls[r][k].out]

\* The request is one of the multi-device operations.
MultiDevice(r) ==
    \/ endpoint[r] = "send_commands"
    \/ endpoint[r] \in {"list_devices", "get_logs"} /\ Truthy(args[r].ids)

Targets(r) ==
    IF endpoint[r] = "send_commands" THEN args[r].payload.device_ids ELSE device_ids[r]

\* C1: a multi-device operation in which an adapter call raised answers with an
\* error and never with a mapping; a mapping is returned only when every
\* per-identifier call of the request completed without raising.
C1_NoPartialMapping ==
    \A r \in Requests :
        Done(r) /\ MultiDevice(r) =>
            /\ ~NoRaise(r) => response[r].kind = "error" /\ response[r].status = 500
                              /\ response[r].mapping = NoMapping
            /\ response[r].kind = "mapping" =>
                  NoRaise(r) /\ Len(calls[r]) = Len(Targets(r))

\* A request failed at its second identifier, after the first had succeeded.
C1_Witness ==
    \E r \in Requests :
        /\ Done(r) /\ MultiDevice(r)
        /\ Len(calls[r]) = 2 /\ ~calls[r][1].out.raised /\ calls[r][2].out.raised
        /\ response[r].kind = "error"

\* C2: Send Commands without a failing call issues exactly one write per entry
\* of device_ids, in order, to that id's commands path, each carrying a payload
\* whose commands list equals the submitted one element for element.
C2_WritesCarryCommands ==
    \A r \in Requests :
        Done(r) /\ endpoint[r] = "send_commands" /\ NoRaise(r) =>
            LET p == args[r].payload
            IN /\ Len(calls[r]) = Len(p.device_ids)
               /\ \A k \in 1..Len(calls[r]) :
                     /\ calls[r][k].method = "POST"
                     /\ calls[r][k].path = CommandsPath(p.device_ids[k])
                     /\ Len(calls[r][k].body) = 1
                     /\ DOMAIN calls[r][k].body[1] = {"commands"}
                     /\ LET sent == calls[r][k].body[1].commands
                        IN /\ Len(sent) = Len(p.commands)
                           /\ \A j \in 1..Len(sent) :
                                 /\ DOMAIN sent[j] = {"code", "value"}
                                 /\ sent[j].code = p.commands[j][1]
                                 /\ sent[j].value = p.commands[j][2]

\* Two devices were sent two different commands and no call failed.
C2_Witness ==
    \E r \in Requests :
        /\ Done(r) /\ endpoint[r] = "send_commands" /\ NoRaise(r)
        /\ Len(calls[r]) >= 2
        /\ Len(args[r].payload.commands) = 2
        /\ args[r].payload.commands[1] # args[r].payload.commands[2]

\* ids is absent, empty, or made of whitespace and commas only.
BlankIds(ids) == ~ids.given \/ \A i \in 1..Len(ids.s) : ids.s[i] \in Whitespace \cup {Comma}

\* C3: Get Logs with ids omitted or blank fails with 400 and issues no adapter call.
C3_BlankIdsRejected ==
    \A r \in Requests :
        Done(r) /\ endpoint[r] = "get_logs" /\ BlankIds(args[r].ids) =>
            response[r].status = 400 /\ calls[r] = <<>>

\* C4: GET /devices/logs is served by Get Logs (reads of the logs paths and the
\* mapping for ids=A,B; 400 without ids), never by Get Single Device.
C4_LogsRouteServed ==
    \A r \in Requests :
        /\ request[r].via = "http" /\ request[r].method = "GET"
        /\ request[r].path = <<devices, logs>>
        /\ Done(r)
        => /\ endpoint[r] = "get_logs"
           /\ ~request[r].query.given => response[r].status = 400
           /\ request[r].query = Some(<<"A", ",", "B">>) /\ NoRaise(r) =>
                 /\ [k \in 1..Len(calls[r]) |-> calls[r][k].path]
                        = <<LogsPath(<<"A">>), LogsPath(<<"B">>)>>
                 /\ response[r].kind = "mapping"

\* s[a..b] is a maximal stretch of s without a comma (empty when b = a - 1).
IsSegment(s, a, b) ==
    /\ a \in 1..(Len(s) + 1)
    /\ b \in (a - 1)..Len(s)
    /\ a = 1 \/ s[a - 1] = Comma
    /\ b = Len(s) \/ s[b + 1] = Comma
    /\ \A i \in a..b : s[i] # Comma

\* The places <<first, last>> of the identifiers in s: what is left of a
\* segment once the whitespace around it is taken away, when anything is left.
Occurrences(s) ==
    {o \in (1..Len(s)) \X (1..Len(s)) :
        /\ o[1] <= o[2]
        /\ s[o[1]] \notin Whitespace
        /\ s[o[2]] \notin Whitespace
        /\ \E a \in 1..o[1], b \in o[2]..Len(s) :
              /\ IsSegment(s, a, b)
              /\ \A i \in (a..(o[1] - 1)) \cup ((o[2] + 1)..b) : s[i] \in Whitespace}

TrimmedIds(s) == {SubSeq(s, o[1], o[2]) : o \in Occurrences(s)}

ReadsOf(r, path) == {k \in 1..Len(calls[r]) : calls[r][k].path = path}

\* C5: List/Get Devices with a non-empty ids and no failing call returns a
\* mapping whose keys are exactly the trimmed identifiers supplied, reads the
\* device path once per identifier occurrence, never reads the listing path,
\* and maps each key to the response obtained for that identifier.
C5_KeysAreTrimmedIds ==
    \A r \in Requests :
        Done(r) /\ endpoint[r] = "list_devices" /\ Truthy(args[r].ids) /\ NoRaise(r) =>
            LET s == args[r].ids.s
            IN /\ response[r].kind = "mapping" /\ response[r].status = 200
               /\ DOMAIN response[r].mapping = TrimmedIds(s)
               /\ Len(calls[r]) = Cardinality(Occurrences(s))
               /\ \A k \in 1..Len(calls[r]) :
                     /\ calls[r][k].method = "GET"
                     /\ calls[r][k].path # ListingPath
                     /\ \E id \in TrimmedIds(s) : calls[r][k].path = DevicePath(id)
               /\ \A id \in TrimmedIds(s) :
                     LET reads == ReadsOf(r, DevicePath(id))
                     IN /\ Cardinality(reads)
                              = Cardinality({o \in Occurrences(s) : SubSeq(s, o[1], o[2]) = id})
                        /\ \E k \in reads :
                              /\ \A j \in reads : j <= k
                              /\ response[r].mapping[id] = calls[r][k].out.value

\* An identifier given twice: two reads, one key.
C5_Witness ==
    \E r \in Requests :
        /\ Done(r) /\ endpoint[r] = "list_devices" /\ Truthy(args[r].ids) /\ NoRaise(r)
        /\ Len(calls[r]) = 2
        /\ Cardinality(DOMAIN response[r].mapping) = 1
        /\ calls[r][1].out.value # calls[r][2].out.value

\* C6: List Devices without ids reads the listing path exactly once and returns
\* its body unmodified; a None body fails with 502, which stays a 502.
C6_ListingFallback ==
    \A r \in Requests :
        Done(r) /\ endpoint[r] = "list_devices" /\ ~args[r].ids.given =>
            /\ Len(calls[r]) = 1
            /\ calls[r][1].method = "GET"
            /\ calls[r][1].path = ListingPath
            /\ ~calls[r][1].out.raised =>
                  IF calls[r][1].out.value = NoneResp
                  THEN response[r].kind = "error" /\ response[r].status = 502
                  ELSE response[r] = ReturnRaw(calls[r][1].out.value)

\* The listing call returned None and the caller got the 502.
C6_Witness ==
    \E r \in Requests :
        /\ Done(r) /\ endpoint[r] = "list_devices" /\ ~args[r].ids.given
        /\ ~calls[r][1].out.raised /\ calls[r][1].out.value = NoneResp
        /\ response[r].status = 502

AdapterEndpoints == {"list_devices", "get_device", "send_commands", "get_logs"}

\* C7: whatever connect() does at startup, the import does not fail, the
\* adapter is kept in `tuya`, and every later adapter call goes through it.
C7_StartupSwallowsConnect ==
    /\ app # "crashed"
    /\ app = "serving" => tuya = OPENAPI
    /\ \A r \in Requests :
          /\ \A k \in 1..Len(calls[r]) : calls[r][k].adapter = OPENAPI
          /\ Done(r) /\ endpoint[r] = "get_device" => Len(calls[r]) = 1
          /\ Done(r) /\ endpoint[r] \in AdapterEndpoints /\ response[r].kind = "mapping" =>
                Len(calls[r]) = Len(Targets(r))

\* connect() failed at startup and the failure reached a caller at first use.
C7_Witness ==
    /\ connect_result.raised
    /\ \E r \in Requests :
          /\ Done(r) /\ Len(calls[r]) = 1
          /\ calls[r][1].out = Raised(AuthenticationError)
          /\ response[r].status = 500
          /\ response[r].detail = AuthenticationError.detail

\* C8: Get Single Device reads the device path exactly once; a non-None
\* response is returned unmodified, None is a 502, an adapter exception a 500
\* carrying the exception's message.
C8_GetDeviceMapping ==
    \A r \in Requests :
        Done(r) /\ endpoint[r] = "get_device" =>
            /\ Len(calls[r]) = 1
            /\ calls[r][1].method = "GET"
            /\ calls[r][1].path = DevicePath(args[r].device_id)
            /\ LET out == calls[r][1].out
               IN IF out.raised
                  THEN /\ response[r].kind = "error" /\ response[r].status = 500
                       /\ response[r].detail = out.exc.detail
                  ELSE IF out.value = NoneResp
                       THEN response[r].kind = "error" /\ response[r].status = 502
                       ELSE response[r] = ReturnRaw(out.value)

\* The device read returned None and the caller got the 502.
C8_Witness ==
    \E r \in Requests :
        /\ Done(r) /\ endpoint[r] = "get_device"
        /\ ~calls[r][1].out.raised /\ calls[r][1].out.value = NoneResp
        /\ response[r].status = 502

\* What a loop over `ids` gathers from the adapter outcomes `outs`, alone.
RECURSIVE Gathered(_, _, _)
Gathered(ids, outs, k) ==
    IF k = 0 THEN NoMapping ELSE Put(Gathered(ids, outs, k - 1), ids[k], outs[k].value)

\* The response of a multi-device operation run alone on the outcomes `outs`.
Alone(ids, outs) ==
    IF \E k \in 1..Len(outs) : outs[k].raised
    THEN LET k == CHOOSE i \in 1..Len(outs) : outs[i].raised
         IN ErrorResponse(HTTPException(500, outs[k].exc.detail))
    ELSE ReturnMapping(Gathered(ids, outs, Len(outs)))

\* C9: under any interleaving each request gathers only its own identifiers and
\* responses, and its outcome is the one it has when run alone on the adapter
\* responses it received.
C9_RequestsIsolated ==
    \A r \in Requests :
        /\ pc[r] = "loop" =>
              results[ResultsOf(r)] = Gathered(Targets(r), Outcomes(r), Len(calls[r]))
        /\ Done(r) /\ MultiDevice(r) =>
              /\ Cardinality(Raises(r)) <= 1
              /\ response[r] = Alone(Targets(r), Outcomes(r))

\* Two requests in flight together: one has failed at its second device, the
\* other is in its loop with a response gathered.
C9_Witness ==
    \E r1 \in Requests, r2 \in Requests :
        /\ r1 # r2
        /\ pc[r1] = "loop" /\ Len(calls[r1]) >= 1
        /\ Done(r2) /\ Len(calls[r2]) = 2 /\ response[r2].kind = "error"

\* C10: when the write for dk is the first to fail, exactly k writes were
\* issued, to d1..dk in order, none to the later devices and none to undo the
\* earlier ones, and the caller gets a 500 with the exception's message only.
C10_FailureStopsWrites ==
    \A r \in Requests :
        Done(r) /\ endpoint[r] = "send_commands" /\ ~NoRaise(r) =>
            LET d == args[r].payload.device_ids
                k == Len(calls[r])
            IN /\ k <= Len(d)
               /\ calls[r][k].out.raised
               /\ \A j \in 1..k :
                     /\ j < k => ~calls[r][j].out.raised
                     /\ calls[r][j].method = "POST"
                     /\ calls[r][j].path = CommandsPath(d[j])
               /\ response[r] = ErrorResponse(HTTPException(500, calls[r][k].out.exc.detail))

\* Three devices, the second write failed: one delivered, one never attempted.
C10_Witness ==
    \E r \in Requests :
        /\ Done(r) /\ endpoint[r] = "send_commands"
        /\ Len(args[r].payload.device_ids) = 3
        /\ args[r].payload.device_ids[1] # args[r].payload.device_ids[3]
        /\ Len(calls[r]) = 2 /\ ~calls[r][1].out.raised /\ calls[r][2].out.raised

====
